---- MODULE Spec2Model ----
(***************************************************************************)
(* Model of the inbound-message pipeline of ai_buddy ("Jarvis"):           *)
(*   app/api/v1/endpoints.py        process_inbound_message                *)
(*   app/services/rate_limiter.py   RateLimiter                            *)
(*   app/services/summon_service.py SummonService                          *)
(*   app/services/llm_service.py    LLMService                             *)
(*   app/services/telnyx_service.py TelnyxService                          *)
(*   app/services/summarization_service.py SummarizationService            *)
(*   app/db/models.py               User, Group, Message                   *)
(*                                                                         *)
(* Strings are sequences of one-character strings, so that strip(),        *)
(* upper(), the summon regular expression and substring tests are computed *)
(* rather than assumed.  Phone numbers are the integers 1..; 0 stands for  *)
(* a missing number (None).  Every "await" of the coroutine is one action, *)
(* so concurrent pipeline runs interleave exactly at the await points.     *)
(***************************************************************************)
EXTENDS Integers, Sequences, FiniteSets, TLC

(***************************************************************************)
(* Bounds of the exploration (not program constants).                      *)
(***************************************************************************)
\* events handled one after the other in a "seq" behaviour
MaxRuns == 2
\* events handled in a "burst" behaviour (one sender repeating one summon)
BurstRuns == 21
\* oracle failures plus carrier rejections injected in one behaviour
\* (none in a burst)
MaxFaults == 1
\* one-hour clock advances between the events of a burst
MaxHours == 1
\* one-second clock advances in the limiter-only specification
MaxTicks == 2
\* is_allowed calls in one behaviour of the limiter-only specification
MaxCalls == 3
\* pieces a text handed to is_summon on its own is put together from
MaxPieces == 2
\* summarizer calls in one behaviour of the summarizer-only specification
MaxSummaries == 3

(***************************************************************************)
(* Program constants.                                                      *)
(***************************************************************************)
\* rate_limiter.py:10
GROUP_LIMIT_PER_HOUR == 10
\* rate_limiter.py:11
USER_LIMIT_PER_DAY == 20
\* rate_limiter.py:28
GROUP_WINDOW_SECONDS == 3600
\* rate_limiter.py:31
USER_WINDOW_SECONDS == 86400
\* endpoints.py:129
GROUP_SIZE_LIMIT == 8

\* endpoints.py:64
HELP_TEXT == <<"J", "a", "r", "v", "i", "s", " ", "H", "e", "l", "p", ":", " ", "M", "e", "n", "t", "i", "o", "n", " ", "@", "j", "a", "r", "v", "i", "s", " ", "i", "n", " ", "a", " ", "g", "r", "o", "u", "p", " ", "t", "o", " ", "g", "e", "t", " ", "p", "l", "a", "n", "n", "i", "n", "g", " ", "h", "e", "l", "p", ".", " ", "I", " ", "o", "n", "l", "y", " ", "r", "e", "p", "l", "y", " ", "w", "h", "e", "n", " ", "s", "u", "m", "m", "o", "n", "e", "d", ".">>
\* llm_service.py:23
FALLBACK_TEXT == <<"I", "'", "m", " ", "h", "a", "v", "i", "n", "g", " ", "t", "r", "o", "u", "b", "l", "e", " ", "t", "h", "i", "n", "k", "i", "n", "g", " ", "r", "i", "g", "h", "t", " ", "n", "o", "w", ".">>
\* endpoints.py:131
NO_PREVIOUS_CONTEXT == <<"N", "o", " ", "p", "r", "e", "v", "i", "o", "u", "s", " ", "c", "o", "n", "t", "e", "x", "t", ".">>
\* summarization_service.py:37
NO_DETAILS_YET == <<"N", "o", " ", "d", "e", "t", "a", "i", "l", "s", " ", "y", "e", "t", ".">>
\* summarization_service.py:13
NO_SUMMARY_YET == <<"N", "o", " ", "s", "u", "m", "m", "a", "r", "y", " ", "y", "e", "t", ".">>

\* Python None for a phone number, a text, a summary, a sender_id
NoNum == 0
NoneText == <<"None">>
NoUser == 0
NoGroup == [id |-> 0, summary |-> NoneText]

\* models.py:15: the preferences dict: its keys and, when it has the key, the
\* value under "summary"; the column default is {}
EmptyPrefs == [keys |-> {}, summary |-> NoneText]

(***************************************************************************)
(* String functions of the Python runtime that the code uses.              *)
(***************************************************************************)
LowerCase == <<"a", "b", "c", "d", "e", "f", "g", "h", "i", "j", "k", "l", "m", "n", "o", "p", "q", "r", "s", "t", "u", "v", "w", "x", "y", "z">>
UpperCase == <<"A", "B", "C", "D", "E", "F", "G", "H", "I", "J", "K", "L", "M", "N", "O", "P", "Q", "R", "S", "T", "U", "V", "W", "X", "Y", "Z">>

\* str.upper() on one character
UpperChar(c) ==
    IF \E i \in 1..26 : LowerCase[i] = c
    THEN UpperCase[CHOOSE i \in 1..26 : LowerCase[i] = c]
    ELSE c

\* str.lower() on one character (the folding re.IGNORECASE applies)
LowerChar(c) ==
    IF \E i \in 1..26 : UpperCase[i] = c
    THEN LowerCase[CHOOSE i \in 1..26 : UpperCase[i] = c]
    ELSE c

\* str.isspace() on one character; also the regex class \s
IsSpace(c) == c \in {" ", "\t", "\n", "\r"}

\* str.upper()
Upper(s) == [i \in 1..Len(s) |-> UpperChar(s[i])]

\* str.strip()
Strip(s) ==
    LET keep == {i \in 1..Len(s) : ~IsSpace(s[i])}
    IN  IF keep = {} THEN <<>>
        ELSE LET lo == CHOOSE i \in keep : \A j \in keep : i <= j
                 hi == CHOOSE i \in keep : \A j \in keep : j <= i
             IN  SubSeq(s, lo, hi)

\* the Python test  sub in s
Contains(s, sub) ==
    \E i \in 1..(Len(s) - Len(sub) + 1) : SubSeq(s, i, i + Len(sub) - 1) = sub

\* set(xs) of a list
SetOf(xs) == {xs[i] : i \in 1..Len(xs)}


(***************************************************************************)
(* summon_service.py: the pattern (^|\s)@?jarvis(:|\s|$) with IGNORECASE,  *)
(* searched anywhere in the text.                                          *)
(***************************************************************************)
Jarvis == <<"j", "a", "r", "v", "i", "s">>

\* the literal "jarvis", case-insensitively, at position j
TokenAt(text, j) ==
    /\ j >= 1
    /\ j + 5 <= Len(text)
    /\ \A k \in 1..6 : LowerChar(text[j + k - 1]) = Jarvis[k]

\* a bug: nothing is required after the token
FollowOK_mut(text, e) == e <= Len(text) + 1

\* the group (:|\s|$) at position e
FollowOK(text, e) ==
    \/ e = Len(text) + 1
    \/ /\ e <= Len(text)
       /\ (text[e] = ":" \/ IsSpace(text[e]))

\* the group (^|\s) in front of position p
PrecededOK(text, p) ==
    \/ p = 1
    \/ (p > 1 /\ IsSpace(text[p - 1]))

summon_pattern_search(text) ==
    \E p \in 1..Len(text) :
        /\ PrecededOK(text, p)
        /\ \/ (TokenAt(text, p) /\ FollowOK(text, p + 6))
           \/ (text[p] = "@" /\ TokenAt(text, p + 1) /\ FollowOK(text, p + 7))

is_summon(text) ==
    IF text = NoneText \/ text = <<>> THEN FALSE
    ELSE summon_pattern_search(text)

(***************************************************************************)
(* endpoints.py:48-49: participant_nums.                                   *)
(* sorted() raises TypeError when it has to compare None with anything.    *)
(* list(set(xs)) iterates the set in hash-slot order; str hashes are       *)
(* randomised per process, so the order is a function of the process's     *)
(* hash seed and not of the sort that precedes it.                         *)
(***************************************************************************)
SortedRaises(xs) == Len(xs) >= 2 /\ NoNum \in SetOf(xs)

\* the hash seeds explored: processes that lay strings out in opposite orders
Seeds == {0, 1}

\* hash slot of a phone number string under a seed (a bijection on 1..10)
HashOf(seed, n) == (n * (1 + 9 * seed)) % 11

\* list(set(...)): the elements of S in hash-slot order
RECURSIVE ListOfSet(_, _)
ListOfSet(S, seed) ==
    IF S = {} THEN <<>>
    ELSE LET x == CHOOSE y \in S : \A z \in S : HashOf(seed, y) <= HashOf(seed, z)
         IN  <<x>> \o ListOfSet(S \ {x}, seed)

participant_nums(e, seed) == ListOfSet(SetOf(e.to \o <<e.from>>), seed)

\* a bug: the text is uppercased but not trimmed
keyword_mut(text) == Upper(text)

\* endpoints.py:52
keyword(text) == Upper(Strip(text))

STOP == <<"S", "T", "O", "P">>
START == <<"S", "T", "A", "R", "T">>
HELP == <<"H", "E", "L", "P">>

(***************************************************************************)
(* Inbound events explored.                                                *)
(***************************************************************************)
T_stop == <<" ", "s", "t", "o", "p", "\n">>
T_Help == <<"H", "e", "l", "p">>
T_chat == <<"J", "u", "s", "t", " ", "c", "h", "a", "t", "t", "i", "n", "g">>
T_summon == <<"@", "j", "a", "r", "v", "i", "s", " ", "p", "l", "a", "n">>
T_hi == <<"h", "i", " ", "J", "a", "r", "v", "i", "s">>

\* the list <<a, a+1, ..., b>>
NumsFrom(a, b) == [i \in 1..(b - a + 1) |-> a + i - 1]

Event(f, t, x) == [from |-> f, to |-> t, text |-> x]

MixEvents ==
    { Event(1, <<2, 3>>, T_summon),
      Event(2, <<3, 1, 1>>, T_chat),
      Event(1, NumsFrom(2, 9), T_hi),
      Event(1, NumsFrom(2, 8), T_summon),
      Event(1, <<2>>, T_stop),
      Event(2, <<3, 1>>, START),
      Event(1, <<2, 3>>, T_Help),
      Event(NoNum, <<2>>, T_Help) }

BurstEvents == { Event(1, <<2>>, T_summon) }

\* payloads that lack a field, as lines 41-43 read them: no "text" key
\* (text defaults to ""), "text": null, and neither "from" nor "to"
MalformedEvents ==
    { Event(1, <<2>>, <<>>),
      Event(1, <<2>>, NoneText),
      Event(NoNum, <<>>, T_Help) }

\* raw contents the text-generation oracle may return
R_raw == <<" ", "O", "n", " ", "i", "t", ".", "\n">>
S_raw == <<"P", "l", "a", "n", ":", " ", "d", "i", "n", "n", "e", "r", ".">>
\* the oracle answers a reply directive with one text and a summary
\* directive with another
OracleContents(kind) == IF kind = "summary" THEN {S_raw} ELSE {R_raw}

(***************************************************************************)
(* State.                                                                  *)
(***************************************************************************)
VARIABLES
    mode,       \* "seq", "pair", "burst" (pipeline), "limiter" (is_allowed
                \* alone), "summon" (is_summon alone) or "summarizer"
    hashSeed,   \* string-hash seed of the running server process
    now,        \* time.time(), in seconds
    users,      \* table users:    rows [id, phone_number, preferences]
    groups,     \* table groups:   rows [id, participants, summary, last_active]
    messages,   \* table messages, in insertion order:
                \* rows [run, group_id, sender_id, content, is_bot]
    redis,      \* counter store: redis_key -> [count, expire_at]
    runs,       \* one record per process_inbound_message coroutine
    rl,         \* one frame per is_allowed caller
    rlLog,      \* history of INCR results, for the limiter properties
    faults,     \* failures injected so far
    probe,      \* is_summon called on its own: the text and the result
    summarizer  \* one frame per update_group_summary / update_user_summary
                \* called on its own

vars == <<mode, hashSeed, now, users, groups, messages, redis, runs, rl, rlLog, faults,
         probe, summarizer>>

Terminal == {"opt-out-processed", "opt-in-processed", "help-sent",
             "logged_only", "rate_limited", "replied", "error"}

InFlight == {r \in DOMAIN runs : runs[r].pc \notin Terminal}

IdleFrame == [pc |-> "idle", key |-> <<>>, limit |-> 0, window_seconds |-> 1,
              redis_key |-> <<>>, current_count |-> 0, called_at |-> 0]

NoTTL == -1


(***************************************************************************)
(* Helpers on the run records.                                             *)
(***************************************************************************)
Call(op, arg, text, ok) == [op |-> op, arg |-> arg, text |-> text, ok |-> ok]

SetRun(r, rec) == runs' = [runs EXCEPT ![r] = rec]

Goto(r, pc) == [runs[r] EXCEPT !.pc = pc]

Logged(run, c) == [run EXCEPT !.calls = Append(@, c)]

(***************************************************************************)
(* rate_limiter.py: is_allowed, one action per await.                      *)
(***************************************************************************)
\* a bug: the window index is the second itself
window_mut(t, window_seconds) == t

\* rate_limiter.py:18: int(time.time() / window_seconds)
window(t, window_seconds) == t \div window_seconds

\* rate_limiter.py:18-19: the frame of a call that is about to INCR
is_allowed(key, limit, window_seconds) ==
    [pc |-> "incr", key |-> key, limit |-> limit,
     window_seconds |-> window_seconds,
     redis_key |-> <<key, window(now, window_seconds)>>,
     current_count |-> 0, called_at |-> now]

check_user_limit(user_id) ==
    is_allowed(<<"user", user_id>>, USER_LIMIT_PER_DAY, USER_WINDOW_SECONDS)

check_group_limit(group_id) ==
    is_allowed(<<"group", group_id>>, GROUP_LIMIT_PER_HOUR, GROUP_WINDOW_SECONDS)

\* a bug: a key counts only once its TTL has been set
Live_mut(k) == k \in DOMAIN redis /\ redis[k].expire_at # NoTTL /\ now < redis[k].expire_at

\* a key is live until its TTL has passed
Live(k) == k \in DOMAIN redis /\ (redis[k].expire_at = NoTTL \/ now < redis[k].expire_at)

\* a bug: a live counter is advanced by two
redis_incr_mut(k) ==
    IF Live(k)
    THEN [x \in DOMAIN redis |-> IF x = k THEN [redis[k] EXCEPT !.count = @ + 2] ELSE redis[x]]
    ELSE [x \in DOMAIN redis \cup {k} |->
             IF x = k THEN [count |-> 1, expire_at |-> NoTTL] ELSE redis[x]]

\* Redis INCR: atomic; a missing key counts from 0 and has no TTL
redis_incr(k) ==
    IF Live(k)
    THEN [x \in DOMAIN redis |-> IF x = k THEN [redis[k] EXCEPT !.count = @ + 1] ELSE redis[x]]
    ELSE [x \in DOMAIN redis \cup {k} |->
             IF x = k THEN [count |-> 1, expire_at |-> NoTTL] ELSE redis[x]]

\* Redis EXPIRE: sets the TTL of an existing key
redis_expire(k, seconds) ==
    IF Live(k)
    THEN [redis EXCEPT ![k].expire_at = now + seconds]
    ELSE redis

\* a bug: the comparison with the limit is strict
Allowed_mut(f) == f.current_count < f.limit

\* the verdict of a frame whose INCR has returned (rate_limiter.py:25)
Allowed(f) == f.current_count <= f.limit

\* rate_limiter.py:21-22
Incr(c) ==
    /\ rl[c].pc = "incr"
    /\ redis' = redis_incr(rl[c].redis_key)
    /\ LET n == redis'[rl[c].redis_key].count
       IN  /\ rl' = [rl EXCEPT ![c].current_count = n,
                               ![c].pc = IF n = 1 THEN "expire" ELSE "return"]
           /\ rlLog' = Append(rlLog, [key |-> rl[c].key, limit |-> rl[c].limit,
                                      window_seconds |-> rl[c].window_seconds,
                                      called_at |-> rl[c].called_at,
                                      at |-> now,
                                      allowed |-> Allowed(rl'[c])])
    /\ UNCHANGED <<probe, summarizer, mode, hashSeed, now, users, groups, messages, runs, faults>>

\* rate_limiter.py:23
Expire(c) ==
    /\ rl[c].pc = "expire"
    /\ redis' = redis_expire(rl[c].redis_key, rl[c].window_seconds)
    /\ rl' = [rl EXCEPT ![c].pc = "return"]
    /\ UNCHANGED <<probe, summarizer, mode, hashSeed, now, users, groups, messages, runs, rlLog, faults>>

(***************************************************************************)
(* endpoints.py: process_inbound_message, one action per await.            *)
(***************************************************************************)
NewRun(e, pc) ==
    [pc |-> pc, event |-> e,
     participant_nums |-> IF SortedRaises(e.to \o <<e.from>>) THEN <<>>
                          ELSE participant_nums(e, hashSeed),
     user_id |-> NoUser, group |-> NoGroup,
     response_text |-> NoneText, new_summary |-> NoneText,
     calls |-> <<>>,
     after |-> {q \in DOMAIN runs : runs[q].pc \in Terminal}]

\* where lines 40-66 leave the coroutine at its first await, or at its return
Entry(e) ==
    IF SortedRaises(e.to \o <<e.from>>) THEN "error"
    ELSE IF e.text = NoneText THEN "error"
    ELSE IF keyword(e.text) = STOP THEN "opt-out-processed"
    ELSE IF keyword(e.text) = START THEN "opt-in-processed"
    ELSE IF keyword(e.text) = HELP THEN "help_send"
    ELSE "select_user"

\* the events and the concurrency an exploration mode admits:
\*   "seq"   any events, malformed ones included, each arriving when the
\*           pipeline is idle;
\*   "pair"  two events, the second arriving at any moment,
\*           also while the first is in flight;
\*   "burst" one sender repeating one summon, each when the pipeline is idle
Admits(e) ==
    \/ /\ mode = "seq"
       /\ e \in MixEvents \cup MalformedEvents
       /\ Len(runs) < MaxRuns
       /\ InFlight = {}
    \/ /\ mode = "pair"
       /\ e \in MixEvents
       /\ Len(runs) < 2
    \/ /\ mode = "burst"
       /\ e \in BurstEvents
       /\ Len(runs) < BurstRuns
       /\ InFlight = {}

\* endpoints.py:36-60: the background task starts on an inbound event
Start(e) ==
    /\ Admits(e)
    /\ runs' = Append(runs, NewRun(e, Entry(e)))
    /\ rl' = Append(rl, IdleFrame)
    /\ UNCHANGED <<probe, summarizer, mode, hashSeed, now, users, groups, messages, redis, rlLog, faults>>

\* telnyx_service.py:45-58 from endpoints.py:62-66; raise_for_status may raise
HelpSend(r, ok) ==
    /\ runs[r].pc = "help_send"
    /\ (~ok => (mode # "burst" /\ faults < MaxFaults))
    /\ faults' = IF ok THEN faults ELSE faults + 1
    /\ SetRun(r, Logged(Goto(r, IF ok THEN "help-sent" ELSE "error"),
                        Call("send_direct", runs[r].event.from, HELP_TEXT, ok)))
    /\ UNCHANGED <<probe, summarizer, mode, hashSeed, now, users, groups, messages, redis, rl, rlLog>>

\* endpoints.py:71-73
SelectUser(r) ==
    /\ runs[r].pc = "select_user"
    /\ LET found == {u \in users : u.phone_number = runs[r].event.from}
       IN  IF found = {}
           THEN SetRun(r, Goto(r, "create_user"))
           ELSE \E u \in found :
                   SetRun(r, [runs[r] EXCEPT !.user_id = u.id, !.pc = "select_group"])
    /\ UNCHANGED <<probe, summarizer, mode, hashSeed, now, users, groups, messages, redis, rl, rlLog, faults>>

\* a bug: the column is not unique
IntegrityError_mut(phone_number) == phone_number = NoNum

\* models.py:13: phone_number is unique and not nullable: the INSERT of a
\* duplicate or of a NULL fails
IntegrityError(phone_number) ==
    \/ phone_number = NoNum
    \/ \E u \in users : u.phone_number = phone_number

\* endpoints.py:74-77; models.py:13: phone_number is unique and not nullable,
\* so the commit raises IntegrityError on a duplicate or a NULL
CreateUser(r) ==
    /\ runs[r].pc = "create_user"
    /\ IF IntegrityError(runs[r].event.from)
       THEN /\ SetRun(r, Goto(r, "error"))
            /\ users' = users
       ELSE /\ users' = users \cup {[id |-> r, phone_number |-> runs[r].event.from,
                                     preferences |-> EmptyPrefs]}
            /\ SetRun(r, [runs[r] EXCEPT !.user_id = r, !.pc = "select_group"])
    /\ UNCHANGED <<probe, summarizer, mode, hashSeed, now, groups, messages, redis, rl, rlLog, faults>>

\* endpoints.py:92-95: the JSON column is compared with the list, element by
\* element; first() takes whichever matching row the store returns first
SelectGroup(r) ==
    /\ runs[r].pc = "select_group"
    /\ LET found == {g \in groups : g.participants = runs[r].participant_nums}
       IN  IF found = {}
           THEN SetRun(r, Goto(r, "create_group"))
           ELSE \E g \in found :
                   SetRun(r, [runs[r] EXCEPT
                                 !.group = [id |-> g.id, summary |-> g.summary],
                                 !.pc = "log_message"])
    /\ UNCHANGED <<probe, summarizer, mode, hashSeed, now, users, groups, messages, redis, rl, rlLog, faults>>

\* endpoints.py:96-99; models.py:18-25: no uniqueness on participants
CreateGroup(r) ==
    /\ runs[r].pc = "create_group"
    /\ groups' = groups \cup {[id |-> r, participants |-> runs[r].participant_nums,
                               summary |-> NoneText, last_active |-> now]}
    /\ SetRun(r, [runs[r] EXCEPT !.group = [id |-> r, summary |-> NoneText],
                                 !.pc = "log_message"])
    /\ UNCHANGED <<probe, summarizer, mode, hashSeed, now, users, messages, redis, rl, rlLog, faults>>

\* a bug: the human Message is not attributed to the sender
HumanMessage_mut(r) ==
    [run |-> r, group_id |-> runs[r].group.id, sender_id |-> NoUser,
     content |-> runs[r].event.text, is_bot |-> FALSE]

\* endpoints.py:102-107
HumanMessage(r) ==
    [run |-> r, group_id |-> runs[r].group.id, sender_id |-> runs[r].user_id,
     content |-> runs[r].event.text, is_bot |-> FALSE]

\* a bug: every logged message is treated as a summon
AfterLog_mut(text) == "user_limit"

\* endpoints.py:112: where the run goes once the human Message is committed
AfterLog(text) == IF is_summon(text) THEN "user_limit" ELSE "logged_only"

\* a bug: a rejection by the user limit is ignored
AfterUserCheck_mut(allowed) == "group_limit"

\* endpoints.py:118-121: where the run goes when check_user_limit returns
AfterUserCheck(allowed) == IF allowed THEN "group_limit" ELSE "rate_limited"

\* a bug: the size threshold is off by one
Route_mut(n) == IF n <= GROUP_SIZE_LIMIT + 1 THEN "oracle_group" ELSE "oracle_dm"

\* endpoints.py:129 and 168: group reply or direct-message fallback
Route(n) == IF n <= GROUP_SIZE_LIMIT THEN "oracle_group" ELSE "oracle_dm"

\* endpoints.py:123-129: where the run goes when check_group_limit returns
AfterGroupCheck(allowed, n) == IF allowed THEN Route(n) ELSE "rate_limited"

\* endpoints.py:108-118: commit the human Message, then run on to the next
\* await: the INCR of check_user_limit when the text summons, else return
LogMessage(r) ==
    /\ runs[r].pc = "log_message"
    /\ messages' = Append(messages, HumanMessage(r))
    /\ SetRun(r, Goto(r, AfterLog(runs[r].event.text)))
    /\ rl' = [rl EXCEPT ![r] = IF AfterLog(runs[r].event.text) = "user_limit"
                               THEN check_user_limit(runs[r].user_id)
                               ELSE IdleFrame]
    /\ UNCHANGED <<probe, summarizer, mode, hashSeed, now, users, groups, redis, rlLog, faults>>

\* endpoints.py:118-123: check_user_limit returns; on success the INCR of
\* check_group_limit is the next await
UserLimitReturn(r) ==
    /\ runs[r].pc = "user_limit"
    /\ rl[r].pc = "return"
    /\ SetRun(r, Logged(Goto(r, AfterUserCheck(Allowed(rl[r]))),
                        Call("is_allowed", rl[r].key, <<>>, Allowed(rl[r]))))
    /\ rl' = [rl EXCEPT ![r] = IF AfterUserCheck(Allowed(rl[r])) = "group_limit"
                               THEN check_group_limit(runs[r].group.id)
                               ELSE IdleFrame]
    /\ UNCHANGED <<probe, summarizer, mode, hashSeed, now, users, groups, messages, redis, rlLog, faults>>

\* endpoints.py:123-129: check_group_limit returns; routing by group size
GroupLimitReturn(r) ==
    /\ runs[r].pc = "group_limit"
    /\ rl[r].pc = "return"
    /\ SetRun(r, Logged(Goto(r, AfterGroupCheck(Allowed(rl[r]),
                                                Len(runs[r].participant_nums))),
                        Call("is_allowed", rl[r].key, <<>>, Allowed(rl[r]))))
    /\ rl' = [rl EXCEPT ![r] = IdleFrame]
    /\ UNCHANGED <<probe, summarizer, mode, hashSeed, now, users, groups, messages, redis, rlLog, faults>>

(***************************************************************************)
(* llm_service.py: generate_response.  The oracle either answers with some *)
(* content or fails; every exception is caught and replaced by the fixed   *)
(* fallback string.                                                        *)
(***************************************************************************)
OracleOutcomes(kind) ==
    {[ok |-> TRUE, content |-> c] : c \in OracleContents(kind)}
        \cup {[ok |-> FALSE, content |-> NoneText]}

\* a bug: a failure of the oracle yields no text instead of the fallback
generate_response_mut(o) == IF o.ok THEN Strip(o.content) ELSE NoneText

generate_response(o) == IF o.ok THEN Strip(o.content) ELSE FALLBACK_TEXT

\* an injected failure spends one unit of the fault budget
Spend(ok) ==
    /\ (~ok => (mode # "burst" /\ faults < MaxFaults))
    /\ faults' = IF ok THEN faults ELSE faults + 1

\* Python's  x or default  for a nullable string
OrDefault(x, default) == IF x = NoneText \/ x = <<>> THEN default ELSE x

\* endpoints.py:131-138
OracleGroup(r, o) ==
    /\ runs[r].pc = "oracle_group"
    /\ Spend(o.ok)
    /\ SetRun(r, Logged([runs[r] EXCEPT !.response_text = generate_response(o),
                                        !.pc = "send_group"],
                        Call("oracle",
                             <<"group_reply", OrDefault(runs[r].group.summary, NO_PREVIOUS_CONTEXT)>>,
                             runs[r].event.text, o.ok)))
    /\ UNCHANGED <<probe, summarizer, mode, hashSeed, now, users, groups, messages, redis, rl, rlLog>>

\* a bug: the summary is updated without the bot Message being persisted
AfterSend_mut(ok) == IF ok THEN "summary_oracle" ELSE "error"

\* endpoints.py:140-147: where the run goes when send_group_message returns
\* or raises
AfterSend(ok) == IF ok THEN "log_bot" ELSE "error"

\* endpoints.py:140-144; telnyx_service.py:40-43: raise_for_status raises
\* when the carrier rejects, and nothing in the pipeline catches it
SendGroup(r, ok) ==
    /\ runs[r].pc = "send_group"
    /\ Spend(ok)
    /\ SetRun(r, Logged(Goto(r, AfterSend(ok)),
                        Call("send_group", runs[r].participant_nums,
                             runs[r].response_text, ok)))
    /\ UNCHANGED <<probe, summarizer, mode, hashSeed, now, users, groups, messages, redis, rl, rlLog>>

\* a bug: the bot Message is attributed to the sender of the summon
BotMessage_mut(r) ==
    [run |-> r, group_id |-> runs[r].group.id, sender_id |-> runs[r].user_id,
     content |-> runs[r].response_text, is_bot |-> TRUE]

\* endpoints.py:147-152
BotMessage(r) ==
    [run |-> r, group_id |-> runs[r].group.id, sender_id |-> NoUser,
     content |-> runs[r].response_text, is_bot |-> TRUE]

\* endpoints.py:153-154
LogBot(r) ==
    /\ runs[r].pc = "log_bot"
    /\ messages' = Append(messages, BotMessage(r))
    /\ SetRun(r, Goto(r, "summary_oracle"))
    /\ UNCHANGED <<probe, summarizer, mode, hashSeed, now, users, groups, redis, rl, rlLog, faults>>

\* the two lines handed to update_group_summary (endpoints.py:166)
HumanLine(run) == <<run.event.from, ": ", run.event.text>>
BotLine(run) == <<"Jarvis", ": ", run.response_text>>

\* a bug-free variant the code does not have: the summary is read again from
\* the store when the prompt is built
current_summary_mut(group) ==
    OrDefault((CHOOSE g \in groups : g.id = group.id).summary, NO_SUMMARY_YET)

\* summarization_service.py:13: the summary of the Group object handed in,
\* as it was when the caller loaded it
current_summary(group) == OrDefault(group.summary, NO_SUMMARY_YET)

\* endpoints.py:166 and summarization_service.py:13-25: the prompt is built
\* from the summary of the Group object the run loaded, and the oracle answers
SummaryOracle(r, o) ==
    /\ runs[r].pc = "summary_oracle"
    /\ Spend(o.ok)
    /\ SetRun(r, Logged(Logged([runs[r] EXCEPT !.new_summary = generate_response(o),
                                               !.pc = "summary_commit"],
                               Call("update_group_summary", runs[r].group.id,
                                    <<HumanLine(runs[r]), BotLine(runs[r])>>, TRUE)),
                        Call("oracle",
                             <<"summary", current_summary(runs[r].group)>>,
                             <<HumanLine(runs[r]), BotLine(runs[r])>>, o.ok)))
    /\ UNCHANGED <<probe, summarizer, mode, hashSeed, now, users, groups, messages, redis, rl, rlLog>>

\* a guard the code does not have: the oracle's fallback string is taken for
\* a failure and the summary is left as it was
assigned_summary_mut(run) ==
    IF run.new_summary = FALLBACK_TEXT THEN run.group.summary ELSE run.new_summary

\* summarization_service.py:25-27: whatever generate_response returned is
\* assigned to group.summary
assigned_summary(run) == run.new_summary

\* summarization_service.py:27-29: group.summary = new_summary; commit
SummaryCommit(r) ==
    /\ runs[r].pc = "summary_commit"
    /\ groups' = {IF g.id = runs[r].group.id
                  THEN [g EXCEPT !.summary = assigned_summary(runs[r])]
                  ELSE g : g \in groups}
    /\ SetRun(r, [runs[r] EXCEPT !.group.summary = assigned_summary(runs[r]),
                                 !.pc = "replied"])
    /\ UNCHANGED <<probe, summarizer, mode, hashSeed, now, users, messages, redis, rl, rlLog, faults>>

\* endpoints.py:170-176
OracleDM(r, o) ==
    /\ runs[r].pc = "oracle_dm"
    /\ Spend(o.ok)
    /\ SetRun(r, Logged([runs[r] EXCEPT !.response_text = generate_response(o),
                                        !.pc = "send_direct"],
                        Call("oracle", <<"dm_fallback", <<>>>>, runs[r].event.text, o.ok)))
    /\ UNCHANGED <<probe, summarizer, mode, hashSeed, now, users, groups, messages, redis, rl, rlLog>>

\* endpoints.py:178-181; telnyx_service.py:45-58
SendDirect(r, ok) ==
    /\ runs[r].pc = "send_direct"
    /\ Spend(ok)
    /\ SetRun(r, Logged(Goto(r, IF ok THEN "replied" ELSE "error"),
                        Call("send_direct", runs[r].event.from,
                             runs[r].response_text, ok)))
    /\ UNCHANGED <<probe, summarizer, mode, hashSeed, now, users, groups, messages, redis, rl, rlLog>>

(***************************************************************************)
(* Environment.                                                            *)
(***************************************************************************)
\* seconds by which one clock advance moves time.time()
TickStep == IF mode = "limiter" THEN 1 ELSE GROUP_WINDOW_SECONDS

\* the last instant the exploration lets the clock reach
Horizon == IF mode = "limiter" THEN MaxTicks ELSE MaxHours * GROUP_WINDOW_SECONDS

\* time passes; Redis drops the keys whose TTL has run out.  The pipeline
\* behaviours explore clock advances between the events of a burst.
Tick ==
    /\ mode = "limiter" \/ (mode = "burst" /\ InFlight = {})
    /\ now + TickStep <= Horizon
    /\ now' = now + TickStep
    /\ redis' = [k \in {x \in DOMAIN redis :
                          redis[x].expire_at = NoTTL \/ now' < redis[x].expire_at}
                 |-> redis[k]]
    /\ UNCHANGED <<probe, summarizer, mode, hashSeed, users, groups, messages, runs, rl, rlLog, faults>>

\* the server process is restarted between events: the store and the counter
\* store persist, the new process hashes strings under a new seed
Restart ==
    /\ mode \in {"seq", "pair"}
    /\ InFlight = {}
    /\ hashSeed' \in Seeds \ {hashSeed}
    /\ UNCHANGED <<probe, summarizer, mode, now, users, groups, messages, redis, runs, rl, rlLog, faults>>

(***************************************************************************)
(* is_allowed called directly (limiter-only specification): two callers,   *)
(* each call site fixes a key, a limit and a window length.                *)
(***************************************************************************)
LimiterSites == {<< <<"a", 0>>, 1, 2>>, << <<"b", 0>>, 2, 3>>}

RlCall(c, site) ==
    /\ mode = "limiter"
    /\ rl[c].pc = "idle"
    /\ Len(rlLog) + Cardinality({d \in DOMAIN rl : rl[d].pc = "incr"}) < MaxCalls
    /\ rl' = [rl EXCEPT ![c] = is_allowed(site[1], site[2], site[3])]
    /\ UNCHANGED <<probe, summarizer, mode, hashSeed, now, users, groups, messages, redis, runs, rlLog, faults>>

RlReturn(c) ==
    /\ mode = "limiter"
    /\ rl[c].pc = "return"
    /\ rl' = [rl EXCEPT ![c] = IdleFrame]
    /\ UNCHANGED <<probe, summarizer, mode, hashSeed, now, users, groups, messages, redis, runs, rlLog, faults>>

(***************************************************************************)
(* is_summon called directly (matcher-only specification) on the texts     *)
(* the specification names and on every text put together from a few       *)
(* pieces.                                                                 *)
(***************************************************************************)
X_at_please == <<"@", "j", "a", "r", "v", "i", "s", " ", "p", "l", "e", "a", "s", "e">>
X_hi == <<"h", "i", " ", "j", "a", "r", "v", "i", "s">>
X_colon == <<"J", "A", "R", "V", "I", "S", ":">>
X_saurus == <<"j", "a", "r", "v", "i", "s", "a", "u", "r", "u", "s">>
X_two == <<"j", "a", "r", "v", "i", "s", "2">>

Pieces ==
    { Jarvis, <<"J", "A", "R", "V", "I", "S">>, <<"J", "a", "r", "V", "i", "s">>,
      <<"@">>, <<" ">>, <<":">>, <<"\n">>, <<"\t">>, <<"2">>, <<"h", "i">>,
      <<"j", "a", "r", "v", "i">>, <<"s">>, <<"!">> }

\* the texts made of at most n pieces
RECURSIVE TextsOf(_)
TextsOf(n) ==
    IF n = 0 THEN {<<>>}
    ELSE LET shorter == TextsOf(n - 1)
         IN  shorter \cup {t \o p : t \in shorter, p \in Pieces}

SummonInputs ==
    TextsOf(MaxPieces) \cup {NoneText, X_at_please, X_hi, X_colon, X_saurus, X_two}

\* no call of is_summon on its own has been made
NoProbe == [text |-> NoneText, done |-> TRUE, result |-> FALSE]

\* summon_service.py:9-12
IsSummonCall ==
    /\ mode = "summon"
    /\ ~probe.done
    /\ probe' = [probe EXCEPT !.done = TRUE, !.result = is_summon(probe.text)]
    /\ UNCHANGED <<summarizer, mode, hashSeed, now, users, groups, messages, redis, runs,
                   rl, rlLog, faults>>

(***************************************************************************)
(* summarization_service.py called directly (summarizer-only               *)
(* specification): a caller loads a Group or a User from the store and     *)
(* hands it to update_group_summary or update_user_summary, one call after *)
(* the other.  One action per await: the oracle, then the commit.          *)
(***************************************************************************)
S_alt == <<"P", "l", "a", "n", ":", " ", "l", "u", "n", "c", "h", ".", " ">>

\* what the oracle may answer to a summarizer prompt
SummarizerOutcomes ==
    {[ok |-> TRUE, content |-> c] : c \in {S_raw, S_alt}}
        \cup {[ok |-> FALSE, content |-> NoneText]}

L_human == <<1, ": ", T_summon>>
L_bot == <<"Jarvis", ": ", Strip(R_raw)>>

\* the new_messages lists handed in
SummarizerLines == {<<L_human>>, <<L_human, L_bot>>}

\* the row of the object a summarizer call is about, as the store has it
StoredGroup(id) == CHOOSE g \in groups : g.id = id
StoredUser(id) == CHOOSE u \in users : u.id = id

\* the stored summary and the stored preferences a call can change
Stored(fn, id) ==
    [summary |-> IF fn = "group" THEN StoredGroup(id).summary ELSE NoneText,
     preferences |-> IF fn = "user" THEN StoredUser(id).preferences ELSE EmptyPrefs]

\* summarization_service.py:36: user.preferences or {}
current_preferences(user) ==
    IF user.preferences.keys = {} THEN EmptyPrefs ELSE user.preferences

\* line 36: "or" hands back the very dict of the attribute when that dict is
\* not empty, and a new dict otherwise
SameDict(user) == user.preferences.keys # {}

\* summarization_service.py:37: current_preferences.get("summary", ...)
current_profile(user) ==
    IF "summary" \in current_preferences(user).keys
    THEN current_preferences(user).summary
    ELSE NO_DETAILS_YET

\* summarization_service.py:51: current_preferences["summary"] = new_summary
with_summary(prefs, new_summary) ==
    [keys |-> prefs.keys \cup {"summary"}, summary |-> new_summary]

\* summarization_service.py:52-55: user.preferences = current_preferences;
\* commit.  The unit of work writes a column when the attribute's value
\* differs from the value it held before the assignment.  When line 36 took
\* the attribute's own dict, line 51 has changed that dict in place: the
\* value before the assignment and the value after it are one object, they
\* compare equal, and no UPDATE is emitted.
flushed_preferences(stored, f) ==
    IF f.same_dict THEN stored ELSE f.preferences

NoFrame ==
    [pc |-> "done", fn |-> "group", id |-> 0, new_messages |-> <<>>,
     summary |-> NoneText, preferences |-> EmptyPrefs, same_dict |-> FALSE,
     context |-> NoneText, new_summary |-> NoneText, oracle_calls |-> 0,
     before |-> [summary |-> NoneText, preferences |-> EmptyPrefs],
     after |-> [summary |-> NoneText, preferences |-> EmptyPrefs]]

\* summarization_service.py:13-23: update_group_summary up to its await
update_group_summary(group, new_messages) ==
    [NoFrame EXCEPT !.pc = "oracle", !.fn = "group", !.id = group.id,
                    !.new_messages = new_messages,
                    !.summary = group.summary,
                    !.context = current_summary(group),
                    !.before = Stored("group", group.id),
                    !.after = Stored("group", group.id)]

\* summarization_service.py:36-46: update_user_summary up to its await
update_user_summary(user, new_messages) ==
    [NoFrame EXCEPT !.pc = "oracle", !.fn = "user", !.id = user.id,
                    !.new_messages = new_messages,
                    !.preferences = current_preferences(user),
                    !.same_dict = SameDict(user),
                    !.context = current_profile(user),
                    !.before = Stored("user", user.id),
                    !.after = Stored("user", user.id)]

\* a caller loads the object and calls the summarizer
SummarizerCall(fn, new_messages) ==
    /\ mode = "summarizer"
    /\ Len(summarizer) < MaxSummaries
    /\ \A c \in DOMAIN summarizer : summarizer[c].pc = "done"
    /\ summarizer' = Append(summarizer,
          IF fn = "group"
          THEN update_group_summary(StoredGroup(1), new_messages)
          ELSE update_user_summary(StoredUser(1), new_messages))
    /\ UNCHANGED <<probe, mode, hashSeed, now, users, groups, messages, redis, runs,
                   rl, rlLog, faults>>

\* summarization_service.py:25 and 48-52: the oracle answers; the new
\* summary is put on the object
SummarizerOracle(c, o) ==
    /\ mode = "summarizer"
    /\ summarizer[c].pc = "oracle"
    /\ Spend(o.ok)
    /\ summarizer' = [summarizer EXCEPT
          ![c].pc = "commit",
          ![c].oracle_calls = @ + 1,
          ![c].new_summary = generate_response(o),
          ![c].summary = IF summarizer[c].fn = "group" THEN generate_response(o) ELSE @,
          ![c].preferences = IF summarizer[c].fn = "user"
                             THEN with_summary(@, generate_response(o)) ELSE @]
    /\ UNCHANGED <<probe, mode, hashSeed, now, users, groups, messages, redis, runs,
                   rl, rlLog>>

\* summarization_service.py:28-29 and 54-55: db.add; commit
SummarizerCommit(c) ==
    /\ mode = "summarizer"
    /\ summarizer[c].pc = "commit"
    /\ LET f == summarizer[c]
           group_row == [StoredGroup(f.id) EXCEPT !.summary = f.summary]
           user_row == [StoredUser(f.id) EXCEPT
                           !.preferences = flushed_preferences(@, f)]
       IN  IF f.fn = "group"
           THEN /\ groups' = {IF g.id = f.id THEN group_row ELSE g : g \in groups}
                /\ users' = users
                /\ summarizer' = [summarizer EXCEPT
                      ![c].pc = "done",
                      ![c].after = [summary |-> group_row.summary,
                                    preferences |-> EmptyPrefs]]
           ELSE /\ users' = {IF u.id = f.id THEN user_row ELSE u : u \in users}
                /\ groups' = groups
                /\ summarizer' = [summarizer EXCEPT
                      ![c].pc = "done",
                      ![c].after = [summary |-> NoneText,
                                    preferences |-> user_row.preferences]]
    /\ UNCHANGED <<probe, mode, hashSeed, now, messages, redis, runs, rl, rlLog, faults>>

(***************************************************************************)
(* Specifications.                                                         *)
(***************************************************************************)
InitStore ==
    /\ hashSeed = 0
    /\ now = 0
    /\ users = {}
    /\ groups = {}
    /\ messages = <<>>
    /\ redis = <<>>
    /\ runs = <<>>
    /\ rlLog = <<>>
    /\ faults = 0

Init ==
    /\ mode \in {"seq", "pair", "burst"}
    /\ rl = <<>>
    /\ InitStore
    /\ probe = NoProbe
    /\ summarizer = <<>>

InitRL ==
    /\ mode = "limiter"
    /\ rl = <<IdleFrame, IdleFrame>>
    /\ InitStore
    /\ probe = NoProbe
    /\ summarizer = <<>>

InitSummon ==
    /\ mode = "summon"
    /\ rl = <<>>
    /\ InitStore
    /\ probe \in {[text |-> t, done |-> FALSE, result |-> FALSE] : t \in SummonInputs}
    /\ summarizer = <<>>

RunStep(r) ==
    \/ \E ok \in BOOLEAN : HelpSend(r, ok)
    \/ SelectUser(r)
    \/ CreateUser(r)
    \/ SelectGroup(r)
    \/ CreateGroup(r)
    \/ LogMessage(r)
    \/ UserLimitReturn(r)
    \/ GroupLimitReturn(r)
    \/ \E o \in OracleOutcomes("group_reply") : OracleGroup(r, o)
    \/ \E ok \in BOOLEAN : SendGroup(r, ok)
    \/ LogBot(r)
    \/ \E o \in OracleOutcomes("summary") : SummaryOracle(r, o)
    \/ SummaryCommit(r)
    \/ \E o \in OracleOutcomes("dm_fallback") : OracleDM(r, o)
    \/ \E ok \in BOOLEAN : SendDirect(r, ok)

Next ==
    \/ \E e \in MixEvents \cup MalformedEvents \cup BurstEvents : Start(e)
    \/ \E r \in DOMAIN runs : RunStep(r)
    \/ \E c \in DOMAIN rl : Incr(c) \/ Expire(c)
    \/ Tick
    \/ Restart

NextRL ==
    \/ \E c \in DOMAIN rl : \E site \in LimiterSites : RlCall(c, site)
    \/ \E c \in DOMAIN rl : Incr(c) \/ Expire(c) \/ RlReturn(c)
    \/ Tick

Spec == Init /\ [][Next]_vars

SpecRL == InitRL /\ [][NextRL]_vars

\* the event loop runs every coroutine that is ready, and every collaborator
\* call returns: a step of some run in flight is eventually taken
Progress == \E r \in DOMAIN runs : RunStep(r) \/ Incr(r) \/ Expire(r)

SpecFair == Spec /\ WF_vars(Progress)

NextSummon == IsSummonCall

\* the store after one message from +1 to +2 has gone through the pipeline
InitSummarizer ==
    /\ mode = "summarizer"
    /\ hashSeed = 0
    /\ now = 0
    /\ users = {[id |-> 1, phone_number |-> 1, preferences |-> EmptyPrefs]}
    /\ groups = {[id |-> 1, participants |-> <<1, 2>>, summary |-> NoneText,
                  last_active |-> 0]}
    /\ messages = <<[run |-> 1, group_id |-> 1, sender_id |-> 1, content |-> T_chat,
                     is_bot |-> FALSE]>>
    /\ redis = <<>>
    /\ runs = <<>>
    /\ rl = <<>>
    /\ rlLog = <<>>
    /\ faults = 0
    /\ probe = NoProbe
    /\ summarizer = <<>>

NextSummarizer ==
    \/ \E fn \in {"group", "user"} : \E new_messages \in SummarizerLines :
          SummarizerCall(fn, new_messages)
    \/ \E c \in DOMAIN summarizer :
          \/ \E o \in SummarizerOutcomes : SummarizerOracle(c, o)
          \/ SummarizerCommit(c)

SpecSummarizer == InitSummarizer /\ [][NextSummarizer]_vars

SpecSummon == InitSummon /\ [][NextSummon]_vars

TypeOK ==
    /\ mode \in {"seq", "pair", "burst", "limiter", "summon", "summarizer"}
    /\ \A r \in DOMAIN runs : runs[r].pc \in Terminal \cup
          {"help_send", "select_user", "create_user", "select_group", "create_group",
           "log_message", "user_limit", "group_limit", "oracle_group", "send_group",
           "log_bot", "summary_oracle", "summary_commit", "oracle_dm", "send_direct"}


(***************************************************************************)
(* Vocabulary of the properties.                                           *)
(***************************************************************************)
\* the set of phone numbers of an event: sender plus recipients
ParticipantSet(r) == SetOf(runs[r].event.to \o <<runs[r].event.from>>)

\* the payload of run r got through lines 40-52
Parsed(r) ==
    /\ ~(Len(runs[r].event.to) >= 1 /\ runs[r].event.from = NoNum)
    /\ runs[r].event.text # NoneText

\* the texts of the explored events, and those among them that, trimmed and
\* uppercased, are a reserved keyword
EventTexts == {e.text : e \in MixEvents \cup MalformedEvents \cup BurstEvents}
StopTexts == {t \in EventTexts : t # NoneText /\ Upper(Strip(t)) = STOP}
StartTexts == {t \in EventTexts : t # NoneText /\ Upper(Strip(t)) = START}
HelpTexts == {t \in EventTexts : t # NoneText /\ Upper(Strip(t)) = HELP}
ComplianceText(t) == t \in StopTexts \cup StartTexts \cup HelpTexts

\* the texts of the explored events that match the activation matcher
SummonTexts == {t \in EventTexts : is_summon(t)}

\* positions of the collaborator calls of run r with a given operation
Ops(r, op) == {i \in DOMAIN runs[r].calls : runs[r].calls[i].op = op}

\* rows of the messages table written by run r
HumanRows(r) == {i \in DOMAIN messages : messages[i].run = r /\ ~messages[i].is_bot}
BotRows(r) == {i \in DOMAIN messages : messages[i].run = r /\ messages[i].is_bot}

\* run r has resolved its Conversation
Resolved(r) == runs[r].group.id # NoGroup.id

\* both quota checks of run r have returned "allowed"
PassedQuota(r) ==
    \E i \in Ops(r, "is_allowed") :
        runs[r].calls[i].arg[1] = "group" /\ runs[r].calls[i].ok

\* run r was routed to the group reply / to the direct-message fallback
SmallConversation(r) == Cardinality(ParticipantSet(r)) <= 8
Finished(r) == runs[r].pc \in Terminal

(***************************************************************************)
(* C1: two events handled one after the other whose sender plus recipients *)
(* form the same set of numbers resolve to the same Conversation, and the  *)
(* store holds exactly one Conversation for that set.                      *)
(* Violated: the list handed to the store is in hash order, so a restarted *)
(* process looks the same set up under a different list.                   *)
(***************************************************************************)
C1_SameSetSameConversation ==
    \A r1, r2 \in DOMAIN runs :
        ( /\ r1 \in runs[r2].after
          /\ Resolved(r1) /\ Resolved(r2)
          /\ ParticipantSet(r1) = ParticipantSet(r2) )
        => /\ runs[r1].group.id = runs[r2].group.id
           /\ Cardinality({g \in groups : SetOf(g.participants) = ParticipantSet(r1)}) = 1

(***************************************************************************)
(* C2: a summoned message that passed both quota checks in a conversation  *)
(* of at most 8 participants ends with exactly one group broadcast to all  *)
(* participants, no direct send, exactly one bot Message (is_bot, null     *)
(* sender) on the conversation and exactly one summary update whose lines  *)
(* are the human line then the bot line.                                   *)
(* Violated when the carrier rejects the broadcast (see C10).              *)
(***************************************************************************)
C2_SmallConversationReply ==
    \A r \in DOMAIN runs :
        (PassedQuota(r) /\ SmallConversation(r) /\ Finished(r))
        => /\ Cardinality(Ops(r, "send_group")) = 1
           /\ \A i \in Ops(r, "send_group") :
                 SetOf(runs[r].calls[i].arg) = ParticipantSet(r)
           /\ Ops(r, "send_direct") = {}
           /\ Cardinality(BotRows(r)) = 1
           /\ \A i \in BotRows(r) :
                 /\ messages[i].sender_id = NoUser
                 /\ messages[i].group_id = runs[r].group.id
           /\ Cardinality(Ops(r, "update_group_summary")) = 1
           /\ \A i \in Ops(r, "update_group_summary") :
                 runs[r].calls[i].text =
                     << <<runs[r].event.from, ": ", runs[r].event.text>>,
                        <<"Jarvis", ": ", runs[r].response_text>> >>

(***************************************************************************)
(* C3: a summoned message that passed both quota checks in a conversation  *)
(* of more than 8 participants makes exactly one direct send, to the       *)
(* sender, and no group broadcast; it persists no bot Message and makes no *)
(* summary update, and the summary of such a conversation stays unset.     *)
(***************************************************************************)
C3_OversizedConversationReply ==
    /\ \A r \in DOMAIN runs :
          (PassedQuota(r) /\ ~SmallConversation(r))
          => /\ Ops(r, "send_group") = {}
             /\ Ops(r, "update_group_summary") = {}
             /\ BotRows(r) = {}
             /\ Cardinality(Ops(r, "send_direct")) <= 1
             /\ \A i \in Ops(r, "send_direct") :
                   runs[r].calls[i].arg = runs[r].event.from
             /\ Finished(r) => Cardinality(Ops(r, "send_direct")) = 1
    /\ \A g \in groups :
          Cardinality(SetOf(g.participants)) > 8 => g.summary = NoneText

C3_Witness ==
    \E r \in DOMAIN runs :
        /\ PassedQuota(r) /\ ~SmallConversation(r)
        /\ runs[r].pc = "replied"
        /\ \E g \in groups : g.id = runs[r].group.id /\ Len(g.participants) = 9


(***************************************************************************)
(* C4: a text that is STOP, START or HELP once trimmed and uppercased      *)
(* creates or modifies no User, Conversation or Message, makes no oracle   *)
(* or rate-limiter call and, for STOP and START, sends nothing; for HELP   *)
(* the run makes exactly one direct send, to the sender, whose text        *)
(* contains "Jarvis Help".                                                 *)
(***************************************************************************)
JarvisHelp == <<"J", "a", "r", "v", "i", "s", " ", "H", "e", "l", "p">>

C4_ComplianceKeywords ==
    \A r \in DOMAIN runs :
        (Parsed(r) /\ ComplianceText(runs[r].event.text))
        => LET text == runs[r].event.text
               calls == runs[r].calls
           IN  /\ runs[r].user_id = NoUser /\ ~Resolved(r)
               /\ \A u \in users : u.id # r
               /\ \A g \in groups : g.id # r
               /\ HumanRows(r) = {} /\ BotRows(r) = {}
               /\ rl[r] = IdleFrame
               /\ \A i \in DOMAIN calls : calls[i].op = "send_direct"
               /\ text \in StopTexts => (runs[r].pc = "opt-out-processed" /\ calls = <<>>)
               /\ text \in StartTexts => (runs[r].pc = "opt-in-processed" /\ calls = <<>>)
               /\ text \in HelpTexts =>
                    /\ runs[r].pc \in {"help_send", "help-sent", "error"}
                    /\ runs[r].pc = "help_send" => calls = <<>>
                    /\ Finished(r) =>
                          /\ Len(calls) = 1
                          /\ calls[1].arg = runs[r].event.from
                          /\ Contains(calls[1].text, JarvisHelp)

C4_Witness ==
    \E r1, r2 \in DOMAIN runs :
        /\ runs[r1].pc = "help-sent" /\ Parsed(r1) /\ Len(runs[r1].calls) = 1
        /\ runs[r2].pc = "opt-out-processed" /\ runs[r2].event.text # STOP

(***************************************************************************)
(* C5: a message that is not a compliance keyword is persisted as exactly  *)
(* one human Message (is_bot false, sender the User of the sender number,  *)
(* on the resolved Conversation), whether the run ends as not activated,   *)
(* rate limited or replied.                                                *)
(***************************************************************************)
PostLog == {"user_limit", "group_limit", "oracle_group", "send_group", "log_bot",
            "summary_oracle", "summary_commit", "oracle_dm", "send_direct",
            "logged_only", "rate_limited", "replied"}

C6_QuotaChecks ==
    \A r \in DOMAIN runs :
        LET calls == runs[r].calls
        IN  /\ \A i \in Ops(r, "is_allowed") :
                  /\ runs[r].event.text \in SummonTexts
                  /\ calls[i].arg[1] = "user" => i = 1
                  /\ calls[i].arg[1] = "group" =>
                        /\ i = 2
                        /\ calls[1].op = "is_allowed"
                        /\ calls[1].arg[1] = "user"
                        /\ calls[1].ok
                  /\ ~calls[i].ok => (runs[r].pc = "rate_limited" /\ i = Len(calls))
            /\ runs[r].pc = "group_limit" => Len(calls) = 1
            /\ runs[r].pc = "user_limit" => calls = <<>>
            /\ runs[r].pc = "rate_limited" =>
                  /\ \E i \in Ops(r, "is_allowed") : ~calls[i].ok
                  /\ Ops(r, "oracle") = {}
                  /\ Ops(r, "send_group") = {} /\ Ops(r, "send_direct") = {}
                  /\ Ops(r, "update_group_summary") = {}
                  /\ BotRows(r) = {}
                  /\ Cardinality(HumanRows(r)) = 1

C6_Witness ==
    \E r1, r2 \in DOMAIN runs :
        /\ runs[r1].pc = "rate_limited" /\ Len(runs[r1].calls) = 1
        /\ runs[r2].pc = "rate_limited" /\ Len(runs[r2].calls) = 2

(***************************************************************************)
(* C7: of the is_allowed calls made on one key within one time window,     *)
(* exactly the first `limit` are allowed and every later one is rejected;  *)
(* the first call of a key in a new window is allowed again.               *)
(***************************************************************************)
WindowOf(x) == x.called_at \div x.window_seconds

\* the call was made and counted inside the same window
InWindow(x) == x.at \div x.window_seconds = WindowOf(x)

Prior(i) ==
    {j \in 1..(i - 1) : /\ rlLog[j].key = rlLog[i].key
                        /\ WindowOf(rlLog[j]) = WindowOf(rlLog[i])}

C7_FirstLimitCallsAllowed ==
    \A i \in DOMAIN rlLog :
        /\ InWindow(rlLog[i]) =>
              (rlLog[i].allowed <=> Cardinality(Prior(i)) < rlLog[i].limit)
        /\ Prior(i) = {} => rlLog[i].allowed

C7_Witness ==
    \E i, j, k \in DOMAIN rlLog :
        /\ i < j /\ j < k
        /\ rlLog[i].key = rlLog[j].key /\ rlLog[j].key = rlLog[k].key
        /\ WindowOf(rlLog[i]) = WindowOf(rlLog[j])
        /\ InWindow(rlLog[i]) /\ InWindow(rlLog[j])
        /\ rlLog[i].allowed /\ ~rlLog[j].allowed
        /\ WindowOf(rlLog[k]) > WindowOf(rlLog[j])
        /\ rlLog[k].allowed

ReplyOracleFailed(r) ==
    \E i \in Ops(r, "oracle") :
        /\ ~runs[r].calls[i].ok
        /\ runs[r].calls[i].arg[1] \in {"group_reply", "dm_fallback"}

C9_OracleFallback ==
    \A r \in DOMAIN runs :
        ReplyOracleFailed(r)
        => LET sends == Ops(r, "send_group") \cup Ops(r, "send_direct")
           IN  /\ runs[r].response_text = FALLBACK_TEXT
               /\ runs[r].pc \in {"send_group", "send_direct"} => sends = {}
               /\ runs[r].pc \notin {"send_group", "send_direct"} =>
                     /\ Cardinality(sends) = 1
                     /\ \A i \in sends :
                           /\ runs[r].calls[i].text = FALLBACK_TEXT
                           /\ runs[r].calls[i].op =
                                 IF SmallConversation(r) THEN "send_group"
                                 ELSE "send_direct"

C9_Witness ==
    \E r \in DOMAIN runs :
        /\ ReplyOracleFailed(r)
        /\ runs[r].pc = "replied"
        /\ \E i \in Ops(r, "send_group") : runs[r].calls[i].text = FALLBACK_TEXT

(***************************************************************************)
(* C10: a rejection of the group broadcast by the carrier is not fatal:    *)
(* the run still finishes as replied, with its bot Message persisted and   *)
(* its summary update made.                                                *)
(* Violated: raise_for_status raises out of send_group_message and the     *)
(* coroutine ends there.                                                   *)
(***************************************************************************)
C10_DispatchFailureNonFatal ==
    \A r \in DOMAIN runs :
        (\E i \in Ops(r, "send_group") : ~runs[r].calls[i].ok)
        => /\ runs[r].pc # "error"
           /\ Finished(r) =>
                 /\ Cardinality(BotRows(r)) = 1
                 /\ Cardinality(Ops(r, "update_group_summary")) = 1

(***************************************************************************)
(* Vocabulary of the concurrency properties.                               *)
(***************************************************************************)
\* runs r1 and r2 were in flight at the same time: neither had ended when
\* the other began
Overlap(r1, r2) ==
    /\ r1 # r2
    /\ r1 \notin runs[r2].after
    /\ r2 \notin runs[r1].after

\* run r is past the User upsert (lines 70-77) / past the Conversation
\* resolve (lines 92-99), or has ended
PastUserUpsert(r) == runs[r].pc \notin {"select_user", "create_user"}
PastResolve(r) ==
    runs[r].pc \notin {"select_user", "create_user", "select_group", "create_group"}

\* run r handles a well-formed message that is not a compliance keyword
Ordinary(r) == Parsed(r) /\ ~ComplianceText(runs[r].event.text)

(***************************************************************************)
(* C11: when two runs for the same, previously unseen participant set are  *)
(* in flight at the same time, exactly one Conversation for that set       *)
(* exists once both have resolved it, and both human Messages are logged   *)
(* on that one Conversation.                                               *)
(* Violated: the lookup and the insert are separate awaits and the groups  *)
(* table has no uniqueness on participants, so both runs may insert.       *)
(***************************************************************************)
C11_ConcurrentFirstContactOneConversation ==
    \A r1, r2 \in DOMAIN runs :
        ( /\ Overlap(r1, r2)
          /\ Ordinary(r1) /\ Ordinary(r2)
          /\ ParticipantSet(r1) = ParticipantSet(r2)
          /\ Resolved(r1) /\ Resolved(r2) )
        => /\ Cardinality({g \in groups : SetOf(g.participants) = ParticipantSet(r1)}) = 1
           /\ runs[r1].group.id = runs[r2].group.id
           /\ \A i \in HumanRows(r1), j \in HumanRows(r2) :
                 messages[i].group_id = messages[j].group_id

(***************************************************************************)
(* C12: when two runs from the same, previously unseen sender number are   *)
(* in flight at the same time, neither run errors out in the User upsert:  *)
(* each goes on with the one User row of that number, and exactly one User *)
(* for the number exists.                                                  *)
(* Violated: the loser's commit raises IntegrityError on the unique        *)
(* phone_number and nothing catches it.                                    *)
(***************************************************************************)
C12_ConcurrentFirstContactOneUser ==
    \A r1, r2 \in DOMAIN runs :
        ( /\ Overlap(r1, r2)
          /\ Ordinary(r1) /\ Ordinary(r2)
          /\ runs[r1].event.from = runs[r2].event.from
          /\ PastUserUpsert(r1) /\ PastUserUpsert(r2) )
        => /\ Cardinality({u \in users : u.phone_number = runs[r1].event.from}) = 1
           /\ \A r \in {r1, r2} :
                 /\ runs[r].user_id # NoUser
                 /\ \E u \in users : /\ u.id = runs[r].user_id
                                     /\ u.phone_number = runs[r].event.from

(***************************************************************************)
(* C13: is_summon(text) is true exactly when the text contains the token   *)
(* "jarvis" in any letter case, optionally with "@" in front, where what   *)
(* precedes the token is the start of the text or whitespace and what      *)
(* follows it is a colon, whitespace or the end of the text; it is false   *)
(* for the empty and for the null text.  It is true for "@jarvis please",  *)
(* "hi jarvis", "JARVIS:" and false for "jarvisaurus", "" and "jarvis2".   *)
(***************************************************************************)
\* the text with every letter in lower case
Lowered(t) == [i \in 1..Len(t) |-> LowerChar(t[i])]

\* the stretch i..j of the text is the token, with or without the "@"
IsToken(t, i, j) == Lowered(SubSeq(t, i, j)) \in {Jarvis, <<"@">> \o Jarvis}

\* the text holds a token standing on its own
HasSummonToken(t) ==
    \E i \in 1..Len(t) : \E j \in i..Len(t) :
        /\ IsToken(t, i, j)
        /\ i = 1 \/ t[i - 1] \in {" ", "\t", "\n", "\r"}
        /\ j = Len(t) \/ t[j + 1] \in {":", " ", "\t", "\n", "\r"}

C13_IsSummonExactly ==
    (mode = "summon" /\ probe.done)
    => /\ probe.result <=>
             (probe.text # NoneText /\ probe.text # <<>> /\ HasSummonToken(probe.text))
       /\ probe.text \in {X_at_please, X_hi, X_colon} => probe.result
       /\ probe.text \in {X_saurus, <<>>, X_two, NoneText} => ~probe.result

C13_Witness ==
    /\ mode = "summon" /\ probe.done
    /\ probe.text = X_saurus
    /\ probe.result = FALSE

(***************************************************************************)
(* C14: every pipeline run that begins eventually ends in one of the       *)
(* outcomes opt-out, opt-in, help-sent, logged-only, rate-limited or       *)
(* replied, given that every collaborator call returns, with a result or   *)
(* with a failure.                                                         *)
(* Violated: a run whose send is rejected by the carrier (see C10) or      *)
(* whose User insert loses a race (see C12) ends in an exception instead.  *)
(***************************************************************************)
Outcomes == {"opt-out-processed", "opt-in-processed", "help-sent",
             "logged_only", "rate_limited", "replied"}

C14_EveryRunEndsInOutcome ==
    []<>(\A r \in DOMAIN runs : Parsed(r) => runs[r].pc \in Outcomes)

(***************************************************************************)
(* C15: within one run the steps happen in the order compliance check,     *)
(* User upsert, Conversation resolve, human Message log, activation check, *)
(* user quota check, conversation quota check, oracle reply, dispatch, bot *)
(* Message persist, summary update; and the summary update, if any, is     *)
(* committed before the run reports completion.                            *)
(* Stated on what each step leaves behind: the effect of a step is there   *)
(* only if the effects of all earlier steps are, and a run waiting at a    *)
(* step has left nothing of that step or of a later one.                   *)
(***************************************************************************)
\* the collaborator calls of a run that replies, in the order of the code
GroupPathOps == <<"is_allowed", "is_allowed", "oracle", "send_group",
                  "update_group_summary", "oracle">>
DirectPathOps == <<"is_allowed", "is_allowed", "oracle", "send_direct">>

OpsOf(r) == [i \in DOMAIN runs[r].calls |-> runs[r].calls[i].op]

IsPrefix(xs, ys) == Len(xs) <= Len(ys) /\ xs = SubSeq(ys, 1, Len(xs))

\* the number of collaborator calls a run has made when it waits at a step
CallsBefore(pc) ==
    CASE pc \in {"select_user", "create_user", "select_group", "create_group",
                 "log_message", "user_limit", "logged_only"} -> {0}
      [] pc = "group_limit" -> {1}
      [] pc = "rate_limited" -> {1, 2}
      [] pc \in {"oracle_group", "oracle_dm"} -> {2}
      [] pc \in {"send_group", "send_direct"} -> {3}
      [] pc = "log_bot" -> {4}
      [] pc = "summary_oracle" -> {4}
      [] pc = "summary_commit" -> {6}
      [] pc = "replied" -> {4, 6}
      [] OTHER -> 0..6

C15_StepsInOrder ==
    \A r \in DOMAIN runs :
        Ordinary(r) =>
        LET pc == runs[r].pc
            calls == runs[r].calls
        IN  \* each effect presupposes the effects of the steps before it
            /\ Resolved(r) => runs[r].user_id # NoUser
            /\ HumanRows(r) # {} => Resolved(r)
            /\ calls # <<>> => (HumanRows(r) # {} /\ runs[r].event.text \in SummonTexts)
            /\ IsPrefix(OpsOf(r), GroupPathOps) \/ IsPrefix(OpsOf(r), DirectPathOps)
            /\ Len(calls) >= 2 =>
                  /\ calls[1].arg[1] = "user" /\ calls[1].ok
                  /\ calls[2].arg[1] = "group"
            /\ Len(calls) >= 3 => (calls[2].ok /\ calls[3].arg[1] # "summary")
            /\ BotRows(r) # {} =>
                  /\ Len(calls) >= 4 /\ calls[4].op = "send_group" /\ calls[4].ok
                  /\ \A i \in HumanRows(r), j \in BotRows(r) : i < j
            /\ Len(calls) >= 5 => BotRows(r) # {}
            /\ Len(calls) >= 6 => calls[6].arg[1] = "summary"
            \* a run waiting at a step has done none of the later ones
            /\ pc \in {"select_user", "create_user"} => runs[r].user_id = NoUser
            /\ pc \in {"select_user", "create_user", "select_group", "create_group"}
                  => ~Resolved(r)
            /\ pc \in {"select_user", "create_user", "select_group", "create_group",
                        "log_message"} => HumanRows(r) = {}
            /\ Len(calls) \in CallsBefore(pc)
            /\ pc \in {"oracle_group", "send_group", "log_bot"} => BotRows(r) = {}
            /\ pc # "error" /\ pc \notin {"select_user", "create_user"}
                  => runs[r].user_id # NoUser
            /\ pc # "error" /\ pc \notin {"select_user", "create_user", "select_group",
                                           "create_group"} => Resolved(r)
            /\ pc \in PostLog => HumanRows(r) # {}
            /\ pc \in {"summary_oracle", "summary_commit"} => BotRows(r) # {}
            \* the summary update is committed before the run completes
            /\ (pc = "replied" /\ Len(calls) = 6) =>
                  /\ runs[r].new_summary # NoneText
                  /\ runs[r].group.summary = runs[r].new_summary
                  /\ \E g \in groups : g.id = runs[r].group.id /\ g.summary # NoneText
            /\ (pc = "replied" /\ SmallConversation(r)) => Len(calls) = 6
            /\ Len(calls) < 6 => runs[r].new_summary = NoneText

C15_Witness ==
    \E r \in DOMAIN runs :
        /\ Ordinary(r)
        /\ runs[r].pc = "replied"
        /\ OpsOf(r) = GroupPathOps
        /\ BotRows(r) # {}
        /\ \E g \in groups : g.id = runs[r].group.id /\ g.summary = runs[r].new_summary

(***************************************************************************)
(* C16: the conversation summary is last-write-wins with no lock or guard: *)
(* a run regenerates the summary from the summary it loaded when it        *)
(* resolved the conversation, also when another run has committed a        *)
(* summary since, and the stored summary is what some run committed.  When *)
(* two activated runs for one conversation overlap, the final summary may  *)
(* so have been regenerated from a summary that does not include the other *)
(* run's exchange (the witness): one update is lost.                       *)
(***************************************************************************)
\* run r has committed its summary update
Committed(r) == runs[r].pc = "replied" /\ Len(runs[r].calls) = 6

C16_SummaryLastWriteWins ==
    /\ \A r \in DOMAIN runs :
          Len(runs[r].calls) = 6 =>
          LET loaded == runs[r].calls[3].arg[2]
              used == runs[r].calls[6].arg[2]
          IN  \* the context of the summary prompt is the context of the reply
              \* prompt: both are the summary the run loaded at lines 92-93
              IF loaded = NO_PREVIOUS_CONTEXT THEN used = NO_SUMMARY_YET
              ELSE used = loaded
    /\ \A g \in groups :
          (\E r \in DOMAIN runs : Committed(r) /\ runs[r].group.id = g.id)
          => \E r \in DOMAIN runs : /\ Committed(r)
                                     /\ runs[r].group.id = g.id
                                     /\ g.summary = runs[r].new_summary

\* both runs replied on the one conversation and both regenerated the
\* summary from "No summary yet.": whichever committed last, the stored
\* summary does not include the other run's exchange
C16_Witness ==
    \E r1, r2 \in DOMAIN runs :
        /\ Overlap(r1, r2)
        /\ Committed(r1) /\ Committed(r2)
        /\ runs[r1].group.id = runs[r2].group.id
        /\ SmallConversation(r1)
        /\ runs[r1].calls[6].arg[2] = NO_SUMMARY_YET
        /\ runs[r2].calls[6].arg[2] = NO_SUMMARY_YET
        /\ \E g \in groups : g.id = runs[r1].group.id /\ g.summary # NoneText

(***************************************************************************)
(* C17: with concurrent is_allowed callers on one key inside one window,   *)
(* under every interleaving of their INCR and EXPIRE steps at most `limit` *)
(* calls are allowed in the window; the verdict of a call is fixed by its  *)
(* INCR alone, whether or not any EXPIRE has run.                          *)
(***************************************************************************)
\* the allowed calls of a key made and counted in window w
AllowedIn(key, w) ==
    {i \in DOMAIN rlLog : /\ rlLog[i].key = key
                          /\ WindowOf(rlLog[i]) = w
                          /\ InWindow(rlLog[i])
                          /\ rlLog[i].allowed}

C17_ConcurrentCallersWithinLimit ==
    /\ \A i \in DOMAIN rlLog :
          Cardinality(AllowedIn(rlLog[i].key, WindowOf(rlLog[i]))) <= rlLog[i].limit
    /\ \A c \in DOMAIN rl :
          rl[c].pc \in {"expire", "return"} =>
             \E i \in DOMAIN rlLog :
                /\ rlLog[i].key = rl[c].key
                /\ rlLog[i].called_at = rl[c].called_at
                /\ rlLog[i].allowed = (rl[c].current_count <= rl[c].limit)

\* a second caller was counted, and rejected, between the INCR and the
\* EXPIRE of the first
C17_Witness ==
    \E c, d \in DOMAIN rl :
        /\ c # d
        /\ rl[c].pc = "expire"
        /\ rl[d].pc = "return"
        /\ rl[d].redis_key = rl[c].redis_key
        /\ rl[c].limit = 1
        /\ rl[d].current_count = 2
        /\ \E i \in DOMAIN rlLog : rlLog[i].key = rl[d].key /\ ~rlLog[i].allowed

C19_LastActiveUpdated ==
    [][\A r \in DOMAIN runs :
          (runs[r].pc # "replied" /\ runs'[r].pc = "replied")
          => \A g \in groups' : g.id = runs[r].group.id => g.last_active = now]_vars

(***************************************************************************)
(* C20: each update_group_summary and update_user_summary call invokes the *)
(* oracle exactly once and replaces the stored summary, or the stored      *)
(* profile summary, with the oracle's output; two calls made from the same *)
(* stored state with the same new lines and the same oracle response leave *)
(* the same stored state.                                                  *)
(* Violated: update_user_summary on a User that already has a profile      *)
(* summary changes the loaded dict in place and assigns the same object    *)
(* back, so the commit writes nothing and the stored profile keeps the old *)
(* summary.                                                                *)
(***************************************************************************)
Done(c) == summarizer[c].pc = "done"

C20_SummarizerReplaces ==
    /\ \A c \in DOMAIN summarizer :
          Done(c) =>
             /\ summarizer[c].oracle_calls = 1
             /\ summarizer[c].fn = "group" =>
                   summarizer[c].after.summary = summarizer[c].new_summary
             /\ summarizer[c].fn = "user" =>
                   /\ "summary" \in summarizer[c].after.preferences.keys
                   /\ summarizer[c].after.preferences.summary = summarizer[c].new_summary
    /\ \A c, d \in DOMAIN summarizer :
          ( /\ Done(c) /\ Done(d)
            /\ summarizer[c].fn = summarizer[d].fn
            /\ summarizer[c].before = summarizer[d].before
            /\ summarizer[c].new_messages = summarizer[d].new_messages
            /\ summarizer[c].new_summary = summarizer[d].new_summary )
          => summarizer[c].after = summarizer[d].after

(***************************************************************************)
(* C21: whatever pipeline runs have happened, overlapping ones included,   *)
(* there is at most one User per phone number and a User exists for the    *)
(* sender of every logged human Message; no step deletes a User and no     *)
(* step changes the preferences of an existing User.                       *)
(***************************************************************************)
UsersConsistent ==
    /\ \A u1, u2 \in users : u1.phone_number = u2.phone_number => u1 = u2
    /\ \A i \in DOMAIN messages :
          ~messages[i].is_bot =>
             \E u \in users :
                /\ u.id = messages[i].sender_id
                /\ u.phone_number = runs[messages[i].run].event.from

C21_UserInvariants ==
    [][ /\ users \subseteq users'
        /\ UsersConsistent' ]_vars

\* two overlapping runs from one new sender: one User row, a Message logged
C21_Witness ==
    \E r1, r2 \in DOMAIN runs :
        /\ Overlap(r1, r2)
        /\ runs[r1].event.from = runs[r2].event.from
        /\ runs[r1].pc = "error" /\ runs[r1].user_id = NoUser /\ Ordinary(r1)
        /\ HumanRows(r2) # {}
        /\ Cardinality({u \in users : u.phone_number = runs[r2].event.from}) = 1

(***************************************************************************)
(* C22: a malformed payload (no sender number, no text or a null text) is  *)
(* rejected before the pipeline starts: the run ends as rejected, it       *)
(* creates or changes no User, Conversation, Message or rate-limit         *)
(* counter, and it dispatches nothing.                                     *)
(* Violated: a payload without a text is read as the empty message and     *)
(* goes through the pipeline; a payload with neither sender nor recipients *)
(* whose text is HELP gets the help message sent to no number.             *)
(***************************************************************************)
Malformed(r) ==
    \/ runs[r].event.from = NoNum
    \/ runs[r].event.text = NoneText
    \/ runs[r].event.text = <<>>

C22_MalformedRejected ==
    \A r \in DOMAIN runs :
        Malformed(r)
        => /\ runs[r].pc = "error"
           /\ runs[r].user_id = NoUser /\ ~Resolved(r)
           /\ \A u \in users : u.id # r
           /\ \A g \in groups : g.id # r
           /\ HumanRows(r) = {} /\ BotRows(r) = {}
           /\ rl[r] = IdleFrame
           /\ runs[r].calls = <<>>

(***************************************************************************)
(* C23: a failure of the oracle inside update_group_summary is not told    *)
(* apart from an answer: the run holds the fallback string as the new      *)
(* summary, its commit overwrites the stored summary of the conversation   *)
(* with that string, whatever the summary was before, and the next         *)
(* activation on the conversation hands the fallback string to the oracle  *)
(* as the context of its reply.                                            *)
(***************************************************************************)
\* the oracle failed when run r asked it for the new summary
SummaryFailed(r) ==
    \E i \in Ops(r, "oracle") :
        runs[r].calls[i].arg[1] = "summary" /\ ~runs[r].calls[i].ok

\* the runs other than r that have committed a summary on r's conversation
OtherCommits(r) ==
    {q \in DOMAIN runs \ {r} :
        Committed(q) /\ runs[q].group.id = runs[r].group.id}

\* every summary commit on r's conversation was made, one after the other,
\* before run r began
CommitsPrecede(r) ==
    /\ OtherCommits(r) # {}
    /\ OtherCommits(r) \subseteq runs[r].after
    /\ \A p, q \in OtherCommits(r) : p < q => p \in runs[q].after

\* the last of them
LastCommit(r) == CHOOSE q \in OtherCommits(r) : \A p \in OtherCommits(r) : p <= q

FallbackHeld ==
    \A r \in DOMAIN runs :
        SummaryFailed(r) => runs[r].new_summary = FALLBACK_TEXT

FallbackIsNextContext ==
    \A r \in DOMAIN runs : \A i \in Ops(r, "oracle") :
        ( /\ runs[r].calls[i].arg[1] = "group_reply"
          /\ CommitsPrecede(r)
          /\ SummaryFailed(LastCommit(r)) )
        => runs[r].calls[i].arg[2] = FALLBACK_TEXT

C23_FailedSummaryOverwrites ==
    [][ /\ FallbackHeld'
        /\ FallbackIsNextContext'
        /\ \A r \in DOMAIN runs :
              ( /\ runs[r].pc = "summary_commit"
                /\ runs'[r].pc = "replied"
                /\ SummaryFailed(r) )
              => /\ \E g \in groups' : g.id = runs[r].group.id
                 /\ \A g \in groups' :
                       g.id = runs[r].group.id => g.summary = FALLBACK_TEXT ]_vars

\* the summary oracle failed in one run, which committed; the next run on
\* the conversation was activated and asked the oracle for its reply
C23_Witness ==
    \E r1, r2 \in DOMAIN runs :
        /\ r1 \in runs[r2].after
        /\ SummaryFailed(r1) /\ Committed(r1)
        /\ runs[r1].group.id = runs[r2].group.id
        /\ LastCommit(r2) = r1
        /\ \E i \in Ops(r2, "oracle") :
              /\ runs[r2].calls[i].arg[1] = "group_reply"
              /\ runs[r2].calls[i].arg[2] = FALLBACK_TEXT
        /\ \E g \in groups : g.id = runs[r1].group.id /\ g.summary = FALLBACK_TEXT

(***************************************************************************)
(* C24: quota is consumed by attempts, not by replies.  Every run that     *)
(* passes the activation check increments the counter of its sender by     *)
(* exactly 1, also when the call is rejected; it increments the counter of *)
(* its conversation by exactly 1 if and only if the user check allowed the *)
(* call, so a run rejected by the conversation limit has consumed a unit   *)
(* of user quota; compliance keywords and messages that do not summon      *)
(* increment nothing; the direct-message fallback of an oversized          *)
(* conversation consumes both counters like a group reply.                 *)
(***************************************************************************)
\* run r has logged a message that summons the bot
Activated(r) ==
    /\ Parsed(r)
    /\ is_summon(runs[r].event.text)
    /\ HumanRows(r) # {}

\* the INCR of run r's user check / conversation check has been executed
UserIncrDone(r) ==
    \/ runs[r].pc = "user_limit" /\ rl[r].pc \in {"expire", "return"}
    \/ Ops(r, "is_allowed") # {}
GroupIncrDone(r) ==
    \/ runs[r].pc = "group_limit" /\ rl[r].pc \in {"expire", "return"}
    \/ Cardinality(Ops(r, "is_allowed")) = 2

\* every counter name a run or the history of the limiter knows
QuotaKeys ==
    {<<"user", u.id>> : u \in users} \cup {<<"group", g.id>> : g \in groups}
        \cup {rlLog[i].key : i \in DOMAIN rlLog}

\* the runs that have incremented the counter named key
Consumers(key) ==
    {r \in DOMAIN runs :
        \/ key = <<"user", runs[r].user_id>> /\ UserIncrDone(r)
        \/ key = <<"group", runs[r].group.id>> /\ GroupIncrDone(r)}

C24_QuotaConsumedByAttempts ==
    /\ \A r \in DOMAIN runs :
          /\ ~Activated(r) => rl[r] = IdleFrame /\ Ops(r, "is_allowed") = {}
          /\ Cardinality(Ops(r, "is_allowed")) <= 2
          /\ (Activated(r) /\ runs[r].pc # "user_limit")
                => /\ Ops(r, "is_allowed") # {}
                   /\ runs[r].calls[1].op = "is_allowed"
                   /\ runs[r].calls[1].arg = <<"user", runs[r].user_id>>
          /\ Ops(r, "is_allowed") # {}
                => IF runs[r].calls[1].ok
                   THEN \/ runs[r].pc = "group_limit"
                        \/ /\ Cardinality(Ops(r, "is_allowed")) = 2
                           /\ runs[r].calls[2].arg = <<"group", runs[r].group.id>>
                   ELSE /\ runs[r].pc = "rate_limited"
                        /\ Len(runs[r].calls) = 1
                        /\ ~GroupIncrDone(r)
          /\ (\E i \in Ops(r, "oracle") : runs[r].calls[i].arg[1] = "dm_fallback")
                => /\ Cardinality(Ops(r, "is_allowed")) = 2
                   /\ runs[r].calls[1].ok /\ runs[r].calls[2].ok
    /\ \A key \in QuotaKeys :
          Cardinality({i \in DOMAIN rlLog : rlLog[i].key = key})
              = Cardinality(Consumers(key))
    /\ \A k \in DOMAIN redis :
          redis[k].count
              = Cardinality({i \in DOMAIN rlLog : /\ rlLog[i].key = k[1]
                                                  /\ WindowOf(rlLog[i]) = k[2]})

\* a run rejected by the conversation limit, its unit of user quota counted;
\* no reply was sent for it
C24_Witness ==
    \E r \in DOMAIN runs :
        /\ Activated(r)
        /\ runs[r].pc = "rate_limited"
        /\ Len(runs[r].calls) = 2
        /\ runs[r].calls[1].ok /\ ~runs[r].calls[2].ok
        /\ Ops(r, "send_group") = {} /\ Ops(r, "send_direct") = {}
        /\ \E k \in DOMAIN redis :
              /\ k[1] = <<"user", runs[r].user_id>>
              /\ redis[k].count = GROUP_LIMIT_PER_HOUR + 1
        /\ \E k \in DOMAIN redis :
              /\ k[1] = <<"group", runs[r].group.id>>
              /\ redis[k].count = GROUP_LIMIT_PER_HOUR + 1

(***************************************************************************)
(* C25: a bot Message is persisted only after send_group_message has       *)
(* returned without error: on every conversation the number of bot         *)
(* Messages is at most the number of group broadcasts the dispatcher       *)
(* accepted for it, every bot Message has a null sender, and no bot        *)
(* Message is on a conversation of more than 8 participants.               *)
(***************************************************************************)
\* the bot Messages stored on conversation id
BotRowsOn(id) ==
    {i \in DOMAIN messages : messages[i].is_bot /\ messages[i].group_id = id}

\* the group broadcasts the dispatcher accepted for conversation id
AcceptedBroadcasts(id) ==
    UNION { {<<r, i>> : i \in {j \in Ops(r, "send_group") : runs[r].calls[j].ok}} :
              r \in {q \in DOMAIN runs : runs[q].group.id = id} }

C25_BotMessageAfterBroadcast ==
    /\ \A g \in groups :
          Cardinality(BotRowsOn(g.id)) <= Cardinality(AcceptedBroadcasts(g.id))
    /\ \A i \in DOMAIN messages :
          messages[i].is_bot
          => /\ messages[i].sender_id = NoUser
             /\ \E c \in Ops(messages[i].run, "send_group") :
                   /\ runs[messages[i].run].calls[c].ok
                   /\ runs[messages[i].run].calls[c].text = messages[i].content
             /\ \E g \in groups : g.id = messages[i].group_id
             /\ \A g \in groups :
                   g.id = messages[i].group_id
                   => Cardinality(SetOf(g.participants)) <= GROUP_SIZE_LIMIT

\* one conversation, two summons: the broadcast of one was accepted and its
\* bot Message is stored; the broadcast of the other was rejected by the
\* carrier and it left no bot Message
C25_Witness ==
    \E r1, r2 \in DOMAIN runs :
        /\ r1 # r2
        /\ runs[r1].group.id = runs[r2].group.id
        /\ BotRows(r1) # {}
        /\ runs[r2].pc = "error"
        /\ \E i \in Ops(r2, "send_group") : ~runs[r2].calls[i].ok
        /\ BotRows(r2) = {}
        /\ Cardinality(BotRowsOn(runs[r1].group.id)) = 1
        /\ Cardinality(AcceptedBroadcasts(runs[r1].group.id)) = 1

====
